---------------------------- MODULE Spec2Model ----------------------------
(***************************************************************************)
(* A model of scripts/extension.py, the PaintTool extension: the           *)
(* configuration loader, the export directory resolver, the Exporter, the  *)
(* gallery item normaliser, the click handler and the button injection.    *)
(*                                                                         *)
(* Strings are sequences of one-character strings, so that strip, split,   *)
(* upper, splitext, int() and str.format are computed and not assumed.     *)
(* A few long constant strings are kept as one opaque element (EXT_ROOT,   *)
(* DEFAULT_EDITOR); a naming template is kept tokenised, each element a    *)
(* literal character or a replacement field such as "{counter}".           *)
(***************************************************************************)
EXTENDS Integers, Sequences, FiniteSets, TLC

VARIABLES
    cfgFile,        \* the state of config.json on disk (CFG_PATH)
    cfg,            \* PaintTool.cfg / Exporter.cfg, the loaded configuration
    pc,             \* "init" before construction, "ready" after
    dirs,           \* the directories that exist on disk
    files,          \* path -> [content, age] for the regular files on disk
    denied,         \* the paths where os.makedirs fails (PermissionError)
    host,           \* modules.shared: importable or not, and its opts
    now,            \* the wall clock, in seconds
    counter,        \* Exporter.counter
    cleaned_dirs,   \* Exporter._cleaned_dirs
    calls,          \* how many operations have been invoked so far
    names,          \* the names generated so far, in order
    events,         \* the scans and writes so far, in order
    last,           \* what the last operation was given, did and returned
    galleries,      \* PaintTool.galleries
    pending_rows,   \* PaintTool.pending_rows
    buttons,        \* the buttons added so far, in order: [tab, row, gallery]
    delivered       \* the components on_after_component has been called with

vars == <<cfgFile, cfg, pc, dirs, files, denied, host, now, counter, cleaned_dirs,
          calls, names, events, last, galleries, pending_rows, buttons,
          delivered>>

(***************************************************************************)
(* Bounds of the model.                                                    *)
(***************************************************************************)
MaxUserKeys == 2     \* keys present in a user config.json object
MaxCalls == 2        \* calls made on one Exporter, or of the resolver
MaxClicks == 1       \* clicks one PaintTool receives
MaxClock == 1        \* the last clock second of the run

(***************************************************************************)
(* Characters and strings.                                                 *)
(***************************************************************************)
DigitChars == <<"0", "1", "2", "3", "4", "5", "6", "7", "8", "9">>
LowerChars == <<"a", "b", "c", "d", "e", "f", "g", "h", "i", "j", "k", "l", "m",
                "n", "o", "p", "q", "r", "s", "t", "u", "v", "w", "x", "y", "z">>
UpperChars == <<"A", "B", "C", "D", "E", "F", "G", "H", "I", "J", "K", "L", "M",
                "N", "O", "P", "Q", "R", "S", "T", "U", "V", "W", "X", "Y", "Z">>
Whitespace == {" ", "\t", "\n", "\r"}

IndexIn(c, t) == IF \E i \in 1..Len(t) : t[i] = c
                 THEN CHOOSE i \in 1..Len(t) : t[i] = c
                 ELSE 0

IsDigit(c) == IndexIn(c, DigitChars) > 0
DigitVal(c) == IndexIn(c, DigitChars) - 1

\* str.upper(), on the ASCII letters
UpperChar(c) == IF IndexIn(c, LowerChars) > 0
                THEN UpperChars[IndexIn(c, LowerChars)]
                ELSE c
PyUpper(s) == [i \in 1..Len(s) |-> UpperChar(s[i])]

\* str.strip()
RECURSIVE LStrip(_)
LStrip(s) == IF s # <<>> /\ Head(s) \in Whitespace THEN LStrip(Tail(s)) ELSE s
RECURSIVE RStrip(_)
RStrip(s) == IF s # <<>> /\ s[Len(s)] \in Whitespace
             THEN RStrip(SubSeq(s, 1, Len(s) - 1))
             ELSE s
PyStrip(s) == RStrip(LStrip(s))

\* str(n) of an integer
RECURSIVE NatToStr(_)
NatToStr(n) == IF n < 10 THEN <<DigitChars[n + 1]>>
               ELSE NatToStr(n \div 10) \o <<DigitChars[(n % 10) + 1]>>
IntToStr(n) == IF n < 0 THEN <<"-">> \o NatToStr(-n) ELSE NatToStr(n)

\* the value of a non-empty string of digits
RECURSIVE DigitsVal(_)
DigitsVal(s) == IF s = <<>> THEN 0
                ELSE 10 * DigitsVal(SubSeq(s, 1, Len(s) - 1)) + DigitVal(s[Len(s)])

\* int(s) of a string: surrounding whitespace, an optional sign, digits;
\* anything else is a ValueError
StrToInt(s) ==
    LET t == PyStrip(s)
        signed == t # <<>> /\ Head(t) \in {"+", "-"}
        d == IF signed THEN Tail(t) ELSE t
    IN IF d # <<>> /\ \A i \in 1..Len(d) : IsDigit(d[i])
       THEN [ok |-> TRUE,
             v |-> IF signed /\ Head(t) = "-" THEN -DigitsVal(d) ELSE DigitsVal(d)]
       ELSE [ok |-> FALSE, v |-> 0]

(***************************************************************************)
(* Constants of the extension.                                             *)
(***************************************************************************)
DEFAULT_EDITOR == <<"DEFAULT_EDITOR">>
EXT_ROOT == <<"EXT_ROOT">>
PathJoin(a, b) == a \o <<"/">> \o b
ExportsDir == PathJoin(EXT_ROOT, <<"e", "x", "p", "o", "r", "t", "s">>)
ROW_ID_PREFIX == <<"image_buttons_">>
GALLERY_ID_SUFFIX == <<"_gallery">>
TARGET_TABS == {<<"txt2img">>, <<"img2img">>, <<"extras">>}

PNG == <<"P", "N", "G">>
JPG == <<"J", "P", "G">>
DefaultNaming == <<"{datetime}", "_", "{tab}", "_", "{index}", "_", "{counter}">>
DefaultQuality == 95
DefaultCleanupDays == 0

ConfigKeys == {"editor_path", "export_dir", "always_export_copy", "export_format",
               "export_jpeg_quality", "export_naming", "export_cleanup_days"}

_DEFAULT_CONFIG ==
    [editor_path |-> DEFAULT_EDITOR,
     export_dir |-> ExportsDir,
     always_export_copy |-> FALSE,
     export_format |-> PNG,
     export_jpeg_quality |-> DefaultQuality,
     export_naming |-> DefaultNaming,
     export_cleanup_days |-> DefaultCleanupDays]

(***************************************************************************)
(* JSON values, as json.load returns them.  A float is kept in tenths;     *)
(* "inf" is the float json.load makes of Infinity.                         *)
(***************************************************************************)
JV(t, b, n, s) == [t |-> t, b |-> b, n |-> n, s |-> s]
JMissing == JV("missing", FALSE, 0, <<>>)
JNull == JV("null", FALSE, 0, <<>>)
JBool(b) == JV("bool", b, 0, <<>>)
JInt(n) == JV("int", FALSE, n, <<>>)
JFloat(tenths) == JV("float", FALSE, tenths, <<>>)
JInf == JV("inf", FALSE, 0, <<>>)
JStr(s) == JV("str", FALSE, 0, s)
JList == JV("list", FALSE, 0, <<>>)

\* int(v): TypeError, ValueError and OverflowError are ok = FALSE
PyInt(v) ==
    CASE v.t = "bool" -> [ok |-> TRUE, v |-> IF v.b THEN 1 ELSE 0]
      [] v.t = "int" -> [ok |-> TRUE, v |-> v.n]
      [] v.t = "float" -> [ok |-> TRUE,
                           v |-> IF v.n < 0 THEN -((-v.n) \div 10) ELSE v.n \div 10]
      [] v.t = "str" -> StrToInt(v.s)
      [] OTHER -> [ok |-> FALSE, v |-> 0]

\* bool(v)
PyBool(v) ==
    CASE v.t = "bool" -> v.b
      [] v.t = "int" -> v.n # 0
      [] v.t = "float" -> v.n # 0
      [] v.t = "inf" -> TRUE
      [] v.t = "str" -> v.s # <<>>
      [] OTHER -> FALSE      \* None, [] and {}

\* str(v)
PyStr(v) ==
    CASE v.t = "str" -> v.s
      [] v.t = "null" -> <<"N", "o", "n", "e">>
      [] v.t = "bool" -> IF v.b THEN <<"T", "r", "u", "e">>
                         ELSE <<"F", "a", "l", "s", "e">>
      [] v.t = "int" -> IntToStr(v.n)
      [] v.t = "float" -> (IF v.n < 0 THEN <<"-">> ELSE <<>>)
                          \o NatToStr((IF v.n < 0 THEN -v.n ELSE v.n) \div 10)
                          \o <<".">>
                          \o NatToStr((IF v.n < 0 THEN -v.n ELSE v.n) % 10)
      [] v.t = "inf" -> <<"i", "n", "f">>
      [] v.t = "list" -> <<"[", "]">>
      [] OTHER -> <<"{", "}">>

(***************************************************************************)
(* load_config                                                             *)
(***************************************************************************)
\* int(uv), the default when it raises
CoerceInt(uv, v) == IF PyInt(uv).ok THEN PyInt(uv).v ELSE v

\* a plausible slip: the allow-list check left out
CoerceFormatNoAllowList(uv, v) == IF uv.t = "str" THEN PyUpper(uv.s) ELSE v

\* str(uv).upper() if isinstance(uv, (str, bytes)) else v; then the allow-list
CoerceFormat(uv, v) ==
    LET u == IF uv.t = "str" THEN PyUpper(uv.s) ELSE v
    IN IF u \in {PNG, JPG} THEN u ELSE PNG

\* one pass of the loop over _DEFAULT_CONFIG.items(); a missing key takes
\* the default itself, user.get(k, v), and the default passes every coercion
Merged(user) ==
    [k \in ConfigKeys |->
        LET v == _DEFAULT_CONFIG[k]
            uv == user[k]
        IN IF uv.t = "missing" THEN v
           ELSE CASE k = "export_cleanup_days" -> CoerceInt(uv, v)
                  [] k = "export_jpeg_quality" -> CoerceInt(uv, v)
                  [] k = "always_export_copy" -> PyBool(uv)
                  [] k = "export_format" -> CoerceFormat(uv, v)
                  [] OTHER -> PyStr(uv)]

\* the file kinds: "absent" (os.path.exists is false), "unreadable" (open
\* raises), "empty" and "malformed" (json.load raises), "nonobject" (a JSON
\* value without .get: user.get raises AttributeError), "object"
load_config(file) ==
    IF file.kind = "object" THEN Merged(file.obj) ELSE _DEFAULT_CONFIG

(***************************************************************************)
(* The configuration files of the model.                                   *)
(***************************************************************************)
JsonValues ==
    {JNull, JBool(TRUE), JInt(-3), JInt(0), JInt(80), JInt(500), JFloat(19), JInf,
     JStr(<<>>), JStr(<<"j", "p", "g">>), JStr(<<" ", "8", "0">>), JStr(<<"x">>),
     JList}

NoKeys == [k \in ConfigKeys |-> JMissing]

\* the JSON object with the keys of K set as f says
UserObject(K, f) == [k \in ConfigKeys |-> IF k \in K THEN f[k] ELSE JMissing]

KeySets == {S \in SUBSET ConfigKeys : Cardinality(S) <= MaxUserKeys}

AbsentFile == [kind |-> "absent", obj |-> NoKeys]

(***************************************************************************)
(* Small utilities.                                                        *)
(***************************************************************************)
\* p.split("?", 1)[0] if p else p
strip_query(p) ==
    IF IndexIn("?", p) > 0 THEN SubSeq(p, 1, IndexIn("?", p) - 1) ELSE p

BadChars == {"<", ">", ":", "\"", "/", "\\", "|", "?", "*", "\n", "\r", "\t"}

sanitize_filename(name) ==
    [i \in 1..Len(name) |-> IF name[i] \in BadChars THEN "_" ELSE name[i]]

\* str.rfind(c), counted from 1; 0 when absent
RFind(c, p) == IF \E i \in 1..Len(p) : p[i] = c
               THEN CHOOSE i \in 1..Len(p) : p[i] = c /\ \A j \in (i + 1)..Len(p) : p[j] # c
               ELSE 0

\* os.path.splitext(p)[-1]: from the last dot, when that dot follows the last
\* separator and some character of the file name before it is not a dot
SplitExt(p) ==
    LET sep == RFind("/", p)
        dot == RFind(".", p)
    IN IF dot > sep /\ \E i \in (sep + 1)..(dot - 1) : p[i] # "."
       THEN SubSeq(p, dot, Len(p))
       ELSE <<>>

\* os.path.dirname(p)
DirName(p) == IF RFind("/", p) > 1 THEN SubSeq(p, 1, RFind("/", p) - 1) ELSE <<>>

EndsWith(s, suffix) ==
    Len(s) >= Len(suffix) /\ SubSeq(s, Len(s) - Len(suffix) + 1, Len(s)) = suffix
StartsWith(s, prefix) ==
    Len(s) >= Len(prefix) /\ SubSeq(s, 1, Len(prefix)) = prefix

(***************************************************************************)
(* The world an Exporter call reads and writes, passed through the calls:  *)
(* [dirs, files, counter, cleaned, names, events].  A call returns         *)
(* [raised, ret, w]; None is <<>>.                                         *)
(***************************************************************************)
\* F applied to the value of v: the value is computed once, as an assignment
\* to a local variable computes it
Bind(v, F(_)) == CHOOSE y \in {F(x) : x \in {v}} : TRUE

World == [dirs |-> dirs, files |-> files, counter |-> counter,
          cleaned |-> cleaned_dirs, names |-> names, events |-> events]

None == <<>>
Exists(w, p) == p \in w.dirs \/ p \in DOMAIN w.files
IsDir(w, p) == p \in w.dirs
IsFile(w, p) == p \in DOMAIN w.files

\* os.makedirs(path, exist_ok=True): FileExistsError on a regular file,
\* PermissionError on a denied path
ensure_dir(w, path) ==
    IF path \in w.dirs THEN [raised |-> FALSE, w |-> w]
    ELSE IF path = <<>> \/ path \in DOMAIN w.files \/ path \in denied
         THEN [raised |-> TRUE, w |-> w]
         ELSE [raised |-> FALSE, w |-> [w EXCEPT !.dirs = @ \cup {path}]]

\* the files cleanup_dir removes: regular files of the directory whose
\* modification time is before the cutoff; os.remove fails on a locked one
Expired(w, path, days) ==
    {p \in DOMAIN w.files :
        DirName(p) = path /\ w.files[p].age > days /\ ~w.files[p].locked}

cleanup_dir(w, path, days) ==
    IF days <= 0 \/ path \notin w.dirs THEN w
    ELSE [w EXCEPT !.files = [p \in DOMAIN w.files \ Expired(w, path, days)
                                |-> w.files[p]]]

(***************************************************************************)
(* resolve_export_dir                                                      *)
(***************************************************************************)
\* getattr(shared.opts, name, None)
PerTabOpt(tab) == IF tab \in DOMAIN host.per_tab THEN host.per_tab[tab] ELSE None

\* getattr(opts, per_tab_attr, None) or getattr(opts, "outdir_samples", None);
\* None when importing modules.shared raises
HostOutdir(tab) ==
    IF ~host.ok THEN None
    ELSE IF PerTabOpt(tab) # None THEN PerTabOpt(tab) ELSE host.outdir_samples

\* a plausible slip: tier 1 accepted without os.path.isdir
ResolveNoIsDir(w, tab, c) ==
    IF PyStrip(c.export_dir) # <<>>
    THEN [raised |-> FALSE, ret |-> PyStrip(c.export_dir), w |-> w]
    ELSE Bind(ensure_dir(w, ExportsDir), LAMBDA made :
            [raised |-> made.raised,
             ret |-> IF made.raised THEN None ELSE ExportsDir,
             w |-> made.w])

resolve_export_dir(w, tab, c) ==
    Bind(PyStrip(c.export_dir), LAMBDA user_dir :
      IF user_dir # <<>> /\ IsDir(w, user_dir)
      THEN [raised |-> FALSE, ret |-> user_dir, w |-> w]
      ELSE Bind(HostOutdir(tab), LAMBDA outdir :
        Bind(IF outdir # None THEN ensure_dir(w, outdir)
             ELSE [raised |-> TRUE, w |-> w], LAMBDA viaHost :
          IF ~viaHost.raised
          THEN [raised |-> FALSE, ret |-> outdir, w |-> viaHost.w]
          ELSE Bind(ensure_dir(w, ExportsDir), LAMBDA viaFallback :
            IF viaFallback.raised
            THEN [raised |-> TRUE, ret |-> None, w |-> w]
            ELSE [raised |-> FALSE, ret |-> ExportsDir, w |-> viaFallback.w]))))

(***************************************************************************)
(* Exporter                                                                *)
(***************************************************************************)
Scan(d) == [e |-> "scan", dir |-> d]
Write(d) == [e |-> "write", dir |-> d]

\* a plausible slip: the scanned directory is not remembered
PrepareForgetful(w, path, c) ==
    Bind(ensure_dir(w, path), LAMBDA made :
      IF made.raised THEN [raised |-> TRUE, w |-> w]
      ELSE IF c.export_cleanup_days > 0
           THEN [raised |-> FALSE,
                 w |-> [cleanup_dir(made.w, path, c.export_cleanup_days)
                           EXCEPT !.events = Append(@, Scan(path))]]
           ELSE [raised |-> FALSE, w |-> made.w])

_maybe_prepare_dir(w, path, c) ==
    Bind(ensure_dir(w, path), LAMBDA made :
      IF made.raised THEN [raised |-> TRUE, w |-> w]
      ELSE IF c.export_cleanup_days > 0 /\ path \notin made.w.cleaned
           THEN [raised |-> FALSE,
                 w |-> [cleanup_dir(made.w, path, c.export_cleanup_days)
                           EXCEPT !.cleaned = @ \cup {path},
                                  !.events = Append(@, Scan(path))]]
           ELSE [raised |-> FALSE, w |-> made.w])

\* datetime.now().strftime("%Y%m%d_%H%M%S"): fifteen characters, the last
\* two the second
Strftime(t) ==
    <<"2", "0", "2", "6", "1", "1", "0", "3", "_", "1", "2", "0", "0">>
    \o <<DigitChars[(t \div 10) + 1], DigitChars[(t % 10) + 1]>>

\* a replacement field str.format has no argument for (KeyError, IndexError)
\* or a single brace (ValueError)
BadTokens == {"{foo}", "{", "}"}

RECURSIVE Substitute(_, _, _, _, _)
Substitute(t, ts, tab, index, n) ==
    IF t = <<>> THEN <<>>
    ELSE (CASE Head(t) = "{datetime}" -> ts
            [] Head(t) = "{tab}" -> tab
            [] Head(t) = "{index}" -> IntToStr(index)
            [] Head(t) = "{counter}" -> IntToStr(n)
            [] OTHER -> <<Head(t)>>)
         \o Substitute(Tail(t), ts, tab, index, n)

\* template.format(datetime=ts, tab=tab, index=index, counter=counter)
Format(t, ts, tab, index, n) ==
    IF \E i \in 1..Len(t) : t[i] \in BadTokens
    THEN [raised |-> TRUE, ret |-> None]
    ELSE [raised |-> FALSE, ret |-> Substitute(t, ts, tab, index, n)]

\* a plausible slip: the counter is not advanced
NextNameStuck(w, tab, index, c) ==
    Bind(Format(c.export_naming, Strftime(now), tab, index, w.counter), LAMBDA base :
      IF base.raised THEN [raised |-> TRUE, ret |-> None, w |-> w]
      ELSE Bind(sanitize_filename(base.ret), LAMBDA name :
        [raised |-> FALSE, ret |-> name,
         w |-> [w EXCEPT !.names = Append(@,
                    [tab |-> tab, index |-> index, ts |-> Strftime(now),
                     counter |-> w.counter, name |-> name])]]))

\* the counter is advanced before the template is formatted
next_name(w, tab, index, c) ==
    Bind(Format(c.export_naming, Strftime(now), tab, index, w.counter + 1), LAMBDA base :
      IF base.raised
      THEN [raised |-> TRUE, ret |-> None, w |-> [w EXCEPT !.counter = @ + 1]]
      ELSE Bind(sanitize_filename(base.ret), LAMBDA name :
        [raised |-> FALSE, ret |-> name,
         w |-> [w EXCEPT !.counter = @ + 1,
                         !.names = Append(@,
                            [tab |-> tab, index |-> index, ts |-> Strftime(now),
                             counter |-> w.counter + 1, name |-> name])]]))

\* (self.cfg.get("export_format") or "PNG").upper()
Fmt(c) == PyUpper(IF c.export_format = <<>> THEN PNG ELSE c.export_format)

ext(c) == IF Fmt(c) = JPG THEN <<".", "j", "p", "g">> ELSE <<".", "p", "n", "g">>

\* what the encoder is given: the format and, for JPEG, the quality
Encoding(c) == IF Fmt(c) = JPG
               THEN [format |-> "JPEG", quality |-> c.export_jpeg_quality]
               ELSE [format |-> "PNG", quality |-> 0]

Raised(w) == [raised |-> TRUE, ret |-> None, w |-> w]

\* img.save raises when ioOk is false
export_image(w, tab, index, c, ioOk) ==
    Bind(resolve_export_dir(w, tab, c), LAMBDA r :
      IF r.raised THEN Raised(r.w)
      ELSE Bind(_maybe_prepare_dir(r.w, r.ret, c), LAMBDA p :
        IF p.raised THEN Raised(p.w)
        ELSE Bind(next_name(p.w, tab, index, c), LAMBDA n :
          IF n.raised THEN Raised(n.w)
          ELSE Bind(PathJoin(r.ret, n.ret \o ext(c)), LAMBDA dest :
            IF ~ioOk \/ IsDir(n.w, dest) THEN Raised(n.w)
            ELSE [raised |-> FALSE, ret |-> dest,
                  w |-> [n.w EXCEPT
                           !.files = [q \in DOMAIN n.w.files \cup {dest} |->
                                        IF q = dest
                                        THEN [content |-> "image", age |-> 0,
                                              locked |-> FALSE]
                                        ELSE n.w.files[q]],
                           !.events = Append(@, Write(r.ret))]]))))

\* os.path.basename(p)
BaseName(p) == SubSeq(p, RFind("/", p) + 1, Len(p))

\* shutil.copy2(src, dst): into dst when dst is a directory; raises when the
\* source is no regular file, when source and target are the same file, and
\* when ioOk is false; the copy keeps the source's modification time
Copy2(w, src, dst, ioOk) ==
    Bind(IF IsDir(w, dst) THEN PathJoin(dst, BaseName(src)) ELSE dst, LAMBDA target :
      IF ~IsFile(w, src) \/ src = target \/ IsDir(w, target) \/ ~ioOk
      THEN [raised |-> TRUE, w |-> w]
      ELSE [raised |-> FALSE,
            w |-> [w EXCEPT
                     !.files = [q \in DOMAIN w.files \cup {target} |->
                                  IF q = target
                                  THEN [w.files[src] EXCEPT !.locked = FALSE]
                                  ELSE w.files[q]],
                     !.events = Append(@, Write(DirName(target)))]])

copy_file(w, src_path, tab, index, c, ioOk) ==
    Bind(resolve_export_dir(w, tab, c), LAMBDA r :
      IF r.raised THEN Raised(r.w)
      ELSE Bind(_maybe_prepare_dir(r.w, r.ret, c), LAMBDA p :
        IF p.raised THEN Raised(p.w)
        ELSE Bind(next_name(p.w, tab, index, c), LAMBDA n :
          IF n.raised THEN Raised(n.w)
          ELSE Bind(PathJoin(r.ret, n.ret \o SplitExt(strip_query(src_path))),
                    LAMBDA dest :
            Bind(Copy2(n.w, strip_query(src_path), dest, ioOk), LAMBDA cp :
              IF cp.raised THEN Raised(cp.w)
              ELSE [raised |-> FALSE, ret |-> dest, w |-> cp.w])))))

(***************************************************************************)
(* PaintTool.ensure_path_from_gallery_item                                 *)
(*                                                                         *)
(* A gallery item is [t, v, first]: t = "str" with v the string; t =       *)
(* "dict" with v the value of its "name" key (JMissing when it has none);  *)
(* t = "tuple" with first = "image", "str" or "empty"; t = "image"; t =    *)
(* "other" for None or any other object.                                   *)
(***************************************************************************)
Item(t, v, first) == [t |-> t, v |-> v, first |-> first]
StrItem(p) == Item("str", JStr(p), "")
DictItem(v) == Item("dict", v, "")
TupleItem(first) == Item("tuple", JNull, first)
ImageItem == Item("image", JNull, "")
OtherItem == Item("other", JNull, "")

\* what a call of ensure_path_from_gallery_item gives back, with the calls of
\* copy_file and export_image it made
Outcome(raised, ret, w, copies, exports) ==
    [raised |-> raised, ret |-> ret, w |-> w, copies |-> copies, exports |-> exports]

\* return self.exporter.copy_file(p, ...) if always_export_copy else p
CopyOrSame(w, p, tab, index, c, ioOk) ==
    IF c.always_export_copy
    THEN Bind(copy_file(w, p, tab, index, c, ioOk), LAMBDA cp :
            Outcome(cp.raised, cp.ret, cp.w, 1, 0))
    ELSE Outcome(FALSE, p, w, 0, 0)

ViaExport(w, tab, index, c, ioOk) ==
    Bind(export_image(w, tab, index, c, ioOk), LAMBDA ex :
        Outcome(ex.raised, ex.ret, ex.w, 0, 1))

ensure_path_from_gallery_item(w, item, tab, index, c, ioOk) ==
    CASE item.t = "dict" ->
            \* item.get("name") or "": a falsy value becomes ""; strip_query
            \* of a truthy value that is no string raises AttributeError
            IF PyBool(item.v) /\ item.v.t # "str"
            THEN Outcome(TRUE, None, w, 0, 0)
            ELSE LET p == IF PyBool(item.v) THEN strip_query(item.v.s) ELSE <<>>
                 IN IF p # <<>> /\ Exists(w, p)
                    THEN CopyOrSame(w, p, tab, index, c, ioOk)
                    ELSE Outcome(FALSE, None, w, 0, 0)
      [] item.t = "str" ->
            LET p == strip_query(item.v.s)
            IN IF Exists(w, p)
               THEN CopyOrSame(w, p, tab, index, c, ioOk)
               ELSE Outcome(FALSE, None, w, 0, 0)
      [] item.t = "tuple" ->
            IF item.first = "image"
            THEN ViaExport(w, tab, index, c, ioOk)
            ELSE Outcome(FALSE, None, w, 0, 0)
      [] item.t = "image" -> ViaExport(w, tab, index, c, ioOk)
      [] OTHER -> Outcome(FALSE, None, w, 0, 0)

(***************************************************************************)
(* PaintTool.open_in_editor                                                *)
(*                                                                         *)
(* images is [isList, items]; index and tab are values of any type.        *)
(***************************************************************************)
Unknown == <<"u", "n", "k", "n", "o", "w", "n">>
DefaultOpener == <<"default opener">>

\* int(index), 0 when it raises or is out of range
SafeIndex(index, n) ==
    LET i == IF PyInt(index).ok THEN PyInt(index).v ELSE 0
    IN IF i < 0 \/ i >= n THEN 0 ELSE i

\* (tab or "unknown") if isinstance(tab, str) else "unknown"
SafeTab(tab) == IF tab.t = "str" /\ tab.s # <<>> THEN tab.s ELSE Unknown

\* the configured editor when set and present, else the platform's default
\* opener (os.startfile, open or xdg-open)
Launcher(w, c) ==
    IF PyStrip(c.editor_path) # <<>> /\ Exists(w, PyStrip(c.editor_path))
    THEN PyStrip(c.editor_path)
    ELSE DefaultOpener

Click(raised, w, launches, note, idx, tab, ensure) ==
    [raised |-> raised, w |-> w, launches |-> launches, note |-> note,
     idx |-> idx, tab |-> tab, ensure |-> ensure]

NotCalled == [called |-> FALSE, raised |-> FALSE, ret |-> None, copies |-> 0,
              exports |-> 0, item |-> OtherItem]

\* the body of the outer try; the launch has its own try
OpenBody(w, images, index, tab, c, ioOk, launchOk) ==
    IF ~images.isList
    THEN Click(FALSE, w, <<>>, "not a list", 0, Unknown, NotCalled)
    ELSE IF Len(images.items) = 0
    THEN Click(FALSE, w, <<>>, "no images", 0, Unknown, NotCalled)
    ELSE LET idx == SafeIndex(index, Len(images.items))
             t == SafeTab(tab)
             item == images.items[idx + 1]
         IN Bind(ensure_path_from_gallery_item(w, item, t, idx, c, ioOk), LAMBDA got :
              Bind([called |-> TRUE, raised |-> got.raised, ret |-> got.ret,
                    copies |-> got.copies, exports |-> got.exports, item |-> item],
                   LAMBDA e :
                IF got.raised THEN Click(TRUE, got.w, <<>>, "exception", idx, t, e)
                ELSE IF got.ret = None
                     THEN Click(FALSE, got.w, <<>>, "no path", idx, t, e)
                ELSE IF ~Exists(got.w, got.ret)
                     THEN Click(FALSE, got.w, <<>>, "file not found", idx, t, e)
                ELSE Click(FALSE, got.w,
                           <<[prog |-> Launcher(got.w, c), path |-> got.ret,
                              ok |-> launchOk]>>,
                           IF launchOk THEN "launched" ELSE "launch error",
                           idx, t, e)))

\* a plausible slip: no outer try around the body
OpenInEditorNoCatch(w, images, index, tab, c, ioOk, launchOk) ==
    OpenBody(w, images, index, tab, c, ioOk, launchOk)

\* except Exception as e: log(...)
open_in_editor(w, images, index, tab, c, ioOk, launchOk) ==
    [OpenBody(w, images, index, tab, c, ioOk, launchOk) EXCEPT !.raised = FALSE]

(***************************************************************************)
(* The paths, files and inputs of the model.                               *)
(***************************************************************************)
OutDir == <<"o">>                               \* an output directory
OldFile == <<"o", "/", "a", ".", "p">>          \* in it, ten days old
LockedFile == <<"o", "/", "l">>                  \* as old, and not removable
OldQuery == OldFile \o <<"?", "7">>             \* the same, as the host sends it
SrcDir == <<"s">>
PlainFile == <<"s", "/", "b">>                  \* one day old, no extension
Missing == <<"s", "/", "m", ".", "p">>          \* not on disk
HostTabDir == <<"h">>                           \* outdir_txt2img_samples
EditorExe == <<"e", ".", "e", "x", "e">>

Txt2img == <<"txt2img">>
Extras == <<"extras">>

File(content, age, locked) == [content |-> content, age |-> age, locked |-> locked]

Cfg(editor, dir, copy, fmt, quality, naming, days) ==
    [editor_path |-> editor, export_dir |-> dir, always_export_copy |-> copy,
     export_format |-> fmt, export_jpeg_quality |-> quality,
     export_naming |-> naming, export_cleanup_days |-> days]

NoHost == [ok |-> FALSE, per_tab |-> <<>>, outdir_samples |-> None]
Hosts == {NoHost,
          [ok |-> TRUE, per_tab |-> (Txt2img :> HostTabDir), outdir_samples |-> OutDir]}

NoCounterNaming == <<"{datetime}", "_", "{index}">>
BadNaming == <<"{foo}">>

NoLast == [op |-> "none"]
NoUI == <<>>

(***************************************************************************)
(* Construction: PaintTool.__init__ loads the configuration once.          *)
(***************************************************************************)
InitConfig ==
    /\ \/ \E k \in {"absent", "unreadable", "empty", "malformed", "nonobject"} :
             cfgFile = [kind |-> k, obj |-> NoKeys]
       \/ \E K \in KeySets : \E f \in [K -> JsonValues] :
             cfgFile = [kind |-> "object", obj |-> UserObject(K, f)]
    /\ cfg = _DEFAULT_CONFIG
    /\ pc = "init"
    /\ dirs = {} /\ files = <<>> /\ denied = {} /\ host = NoHost
    /\ now = 0 /\ counter = 0 /\ cleaned_dirs = {}
    /\ calls = 0 /\ names = <<>> /\ events = <<>> /\ last = NoLast
    /\ galleries = NoUI /\ pending_rows = NoUI /\ buttons = <<>> /\ delivered = {}

Construct ==
    /\ pc = "init"
    /\ cfg' = load_config(cfgFile)
    /\ pc' = "ready"
    /\ counter' = 0
    /\ cleaned_dirs' = {}
    /\ galleries' = NoUI
    /\ pending_rows' = NoUI
    /\ UNCHANGED <<cfgFile, dirs, files, denied, host, now, calls, names, events,
                   last, buttons, delivered>>

NextConfig == Construct

SpecConfig == InitConfig /\ [][NextConfig]_vars

(***************************************************************************)
(* resolve_export_dir, called on any directory state.                      *)
(***************************************************************************)
Pad(p) == <<" ">> \o p \o <<" ">>
ResolvePaths == {OutDir, HostTabDir, SrcDir, ExportsDir}
PathStates == {"absent", "dir", "file", "denied"}

InitResolve ==
    /\ cfgFile = AbsentFile
    /\ \E d \in {<<>>, <<" ">>, OutDir, Pad(OutDir), ExportsDir} :
          cfg = [_DEFAULT_CONFIG EXCEPT !.export_dir = d]
    /\ pc = "ready"
    /\ \E st \in [ResolvePaths -> PathStates] :
          /\ dirs = {p \in ResolvePaths : st[p] = "dir"}
          /\ files = [p \in {q \in ResolvePaths : st[q] = "file"} |-> File("F", 1, FALSE)]
          /\ denied = {p \in ResolvePaths : st[p] = "denied"}
    /\ host \in {NoHost} \cup
                {[ok |-> TRUE, per_tab |-> (Txt2img :> a), outdir_samples |-> b] :
                    a \in {None, HostTabDir}, b \in {None, SrcDir}}
    /\ now = 0 /\ counter = 0 /\ cleaned_dirs = {}
    /\ calls = 0 /\ names = <<>> /\ events = <<>> /\ last = NoLast
    /\ galleries = NoUI /\ pending_rows = NoUI /\ buttons = <<>> /\ delivered = {}

Resolve(tab) ==
    /\ pc = "ready"
    /\ calls < MaxCalls
    /\ \E r \in {resolve_export_dir(World, tab, cfg)} :
          /\ dirs' = r.w.dirs
          /\ last' = [op |-> "resolve_export_dir", raised |-> r.raised, ret |-> r.ret,
                      tab |-> tab, pre |-> World]
    /\ calls' = calls + 1
    /\ UNCHANGED <<cfgFile, cfg, pc, files, denied, host, now, counter, cleaned_dirs,
                   names, events, galleries, pending_rows, buttons, delivered>>

NextResolve == \E tab \in {Txt2img, Extras} : Resolve(tab)

SpecResolve == InitResolve /\ [][NextResolve]_vars

(***************************************************************************)
(* Calls of export_image and copy_file on one Exporter.                    *)
(***************************************************************************)
ExportCfgs ==
    {Cfg(DEFAULT_EDITOR, d, FALSE, f, DefaultQuality, n, days) :
        d \in {<<>>, OutDir}, f \in {PNG, JPG},
        n \in {DefaultNaming, NoCounterNaming, BadNaming}, days \in {0, 7}}

StartFiles == (OldFile :> File("A", 10, FALSE)) @@ (LockedFile :> File("L", 10, TRUE))
              @@ (PlainFile :> File("B", 1, FALSE))

InitExport ==
    /\ cfgFile = AbsentFile
    /\ cfg \in ExportCfgs
    /\ pc = "ready"
    /\ dirs = {OutDir, SrcDir}
    /\ files = StartFiles
    /\ denied = {}
    /\ host \in IF cfg.export_dir = <<>> THEN Hosts ELSE {NoHost}
    /\ now = 0 /\ counter = 0 /\ cleaned_dirs = {}
    /\ calls = 0 /\ names = <<>> /\ events = <<>> /\ last = NoLast
    /\ galleries = NoUI /\ pending_rows = NoUI /\ buttons = <<>> /\ delivered = {}

\* the world after a call
Becomes(w) ==
    /\ dirs' = w.dirs
    /\ files' = w.files
    /\ counter' = w.counter
    /\ cleaned_dirs' = w.cleaned
    /\ names' = w.names
    /\ events' = w.events

CopyFile(src_path, tab, index) ==
    /\ pc = "ready"
    /\ calls < MaxCalls
    /\ \E r \in {copy_file(World, src_path, tab, index, cfg, TRUE)} :
          /\ Becomes(r.w)
          /\ last' = [op |-> "copy_file", raised |-> r.raised, ret |-> r.ret,
                      src |-> src_path, tab |-> tab, index |-> index, pre |-> World]
    /\ calls' = calls + 1
    /\ UNCHANGED <<cfgFile, cfg, pc, denied, host, now, galleries, pending_rows,
                   buttons, delivered>>

ExportImage(tab, index) ==
    /\ pc = "ready"
    /\ calls < MaxCalls
    /\ \E r \in {export_image(World, tab, index, cfg, TRUE)} :
          /\ Becomes(r.w)
          /\ last' = [op |-> "export_image", raised |-> r.raised, ret |-> r.ret,
                      src |-> None, tab |-> tab, index |-> index, pre |-> World]
    /\ calls' = calls + 1
    /\ UNCHANGED <<cfgFile, cfg, pc, denied, host, now, galleries, pending_rows,
                   buttons, delivered>>

\* a second passes
Tick ==
    /\ now < MaxClock
    /\ now' = now + 1
    /\ UNCHANGED <<cfgFile, cfg, pc, dirs, files, denied, host, counter, cleaned_dirs,
                   calls, names, events, last, galleries, pending_rows, buttons,
                   delivered>>

CallArgs == {<<Txt2img, 0>>, <<Txt2img, 1>>, <<Extras, 0>>}

NextExport ==
    \/ \E src \in {OldQuery, PlainFile, Missing}, a \in CallArgs :
          CopyFile(src, a[1], a[2])
    \/ \E a \in CallArgs : ExportImage(a[1], a[2])
    \/ Tick

SpecExport == InitExport /\ [][NextExport]_vars

(***************************************************************************)
(* Clicks: the host calls open_in_editor with whatever the page sends.     *)
(***************************************************************************)
ClickCfgs ==
    {Cfg(e, OutDir, copy, PNG, DefaultQuality, n, days) :
        e \in {<<>>, Pad(EditorExe), Missing}, copy \in BOOLEAN,
        n \in {DefaultNaming, BadNaming}, days \in {0, 7}}

InitClick ==
    /\ cfgFile = AbsentFile
    /\ cfg \in ClickCfgs
    /\ pc = "ready"
    /\ dirs = {OutDir, SrcDir}
    /\ files = StartFiles @@ (EditorExe :> File("E", 1, FALSE))
    /\ denied = {}
    /\ host = NoHost
    /\ now = 0 /\ counter = 0 /\ cleaned_dirs = {}
    /\ calls = 0 /\ names = <<>> /\ events = <<>> /\ last = NoLast
    /\ galleries = NoUI /\ pending_rows = NoUI /\ buttons = <<>> /\ delivered = {}

OpenInEditor(images, index, tab, ioOk, launchOk) ==
    /\ pc = "ready"
    /\ calls < MaxClicks
    /\ \E r \in {open_in_editor(World, images, index, tab, cfg, ioOk, launchOk)} :
          /\ Becomes(r.w)
          /\ last' = [op |-> "open_in_editor", raised |-> r.raised,
                      launches |-> r.launches, note |-> r.note, idx |-> r.idx,
                      tab |-> r.tab, ensure |-> r.ensure, pre |-> World]
    /\ calls' = calls + 1
    /\ UNCHANGED <<cfgFile, cfg, pc, denied, host, now, galleries, pending_rows,
                   buttons, delivered>>

GalleryItems ==
    {StrItem(OldQuery), StrItem(Missing), DictItem(JStr(PlainFile)),
     DictItem(JStr(Missing)), DictItem(JInt(5)), DictItem(JMissing),
     TupleItem("image"), TupleItem("str"), ImageItem, OtherItem}

ImageLists ==
    {[isList |-> FALSE, items |-> <<>>], [isList |-> TRUE, items |-> <<>>]}
    \cup {[isList |-> TRUE, items |-> <<i>>] : i \in GalleryItems}
    \cup {[isList |-> TRUE, items |-> <<OtherItem, i>>] :
            i \in {ImageItem, StrItem(OldQuery)}}

Indexes == {JNull, JStr(<<"1">>), JInt(-1), JInt(7)}
TabValues == {JNull, JStr(Txt2img), JInt(3)}

NextClick ==
    \E images \in ImageLists, index \in Indexes, tab \in TabValues,
       ioOk \in BOOLEAN, launchOk \in BOOLEAN :
        OpenInEditor(images, index, tab, ioOk, launchOk)

SpecClick == InitClick /\ [][NextClick]_vars

(***************************************************************************)
(* The button injection: the host calls on_after_component once for each   *)
(* component it builds, with the component's elem_id.  A component is      *)
(* known here by its elem_id, kept as a sequence of parts.                 *)
(***************************************************************************)
GalleryOf(tab) == tab \o GALLERY_ID_SUFFIX
RowOf(tab) == ROW_ID_PREFIX \o tab
Foo == <<"foo">>

Components ==
    {GalleryOf(t) : t \in TARGET_TABS \cup {Foo}}
    \cup {RowOf(t) : t \in TARGET_TABS \cup {Foo}}
    \cup {<<>>, <<"settings">>, GALLERY_ID_SUFFIX, ROW_ID_PREFIX,
          ROW_ID_PREFIX \o <<"x">> \o GALLERY_ID_SUFFIX}

UI == [galleries |-> galleries, pending_rows |-> pending_rows, buttons |-> buttons]

Without(f, k) == [x \in DOMAIN f \ {k} |-> f[x]]
With(f, k, v) == [x \in DOMAIN f \cup {k} |-> IF x = k THEN v ELSE f[x]]

\* "via" tells which delivery made the call: the row's own or the gallery's
inject_button_into_row(ui, tab, row_component, via) ==
    IF tab \notin TARGET_TABS THEN ui
    ELSE IF tab \notin DOMAIN ui.galleries
         THEN [ui EXCEPT !.pending_rows = With(@, tab, row_component)]
         ELSE [ui EXCEPT !.buttons = Append(@, [tab |-> tab, row |-> row_component,
                                                gallery |-> ui.galleries[tab],
                                                via |-> via])]

\* a plausible slip: the gallery is recorded and the pending row forgotten
RecordGalleryOnly(ui, component, tab) ==
    [ui EXCEPT !.galleries = With(@, tab, component)]

\* self.galleries[tab] = component; the pending row, if any, gets its button
RecordGallery(ui, component, tab) ==
    LET u1 == [ui EXCEPT !.galleries = With(@, tab, component)]
        u2 == [u1 EXCEPT !.pending_rows = Without(@, tab)]
    IN IF tab \in DOMAIN ui.pending_rows
       THEN inject_button_into_row(u2, tab, ui.pending_rows[tab], "gallery")
       ELSE u1

on_after_component(ui, component, id) ==
    LET elem_id == PyStrip(id)
        gtab == SubSeq(elem_id, 1, Len(elem_id) - Len(GALLERY_ID_SUFFIX))
        u1 == IF EndsWith(elem_id, GALLERY_ID_SUFFIX) /\ gtab # <<>>
              THEN RecordGallery(ui, component, gtab)
              ELSE ui
        rtab == SubSeq(elem_id, Len(ROW_ID_PREFIX) + 1, Len(elem_id))
    IN IF StartsWith(elem_id, ROW_ID_PREFIX)
       THEN inject_button_into_row(u1, rtab, component, "row")
       ELSE u1

InitUI ==
    /\ cfgFile = AbsentFile
    /\ cfg = _DEFAULT_CONFIG
    /\ pc = "ready"
    /\ dirs = {} /\ files = <<>> /\ denied = {} /\ host = NoHost
    /\ now = 0 /\ counter = 0 /\ cleaned_dirs = {}
    /\ calls = 0 /\ names = <<>> /\ events = <<>> /\ last = NoLast
    /\ galleries = NoUI /\ pending_rows = NoUI /\ buttons = <<>> /\ delivered = {}

AfterComponent(component) ==
    /\ pc = "ready"
    /\ component \notin delivered
    /\ \E u \in {on_after_component(UI, component, component)} :
          /\ galleries' = u.galleries
          /\ pending_rows' = u.pending_rows
          /\ buttons' = u.buttons
    /\ delivered' = delivered \cup {component}
    /\ UNCHANGED <<cfgFile, cfg, pc, dirs, files, denied, host, now, counter,
                   cleaned_dirs, calls, names, events, last>>

NextUI == \E component \in Components : AfterComponent(component)

SpecUI == InitUI /\ [][NextUI]_vars

(***************************************************************************)
(* The claims.                                                             *)
(***************************************************************************)
Loaded == pc = "ready"
UserValue(k) == cfgFile.obj[k]

\* C3: whatever the state of config.json, load_config returns a mapping with
\* all seven keys; export_format is "PNG" or "JPG", a string that upper-cases
\* to "JPG" giving "JPG" and any other value "PNG"; export_cleanup_days and
\* export_jpeg_quality are integers, the default when int() fails;
\* always_export_copy is a boolean; the other three are strings.
C3_LoadedConfigIsTyped ==
    Loaded =>
        /\ DOMAIN cfg = ConfigKeys
        /\ cfg.export_format \in {PNG, JPG}
        /\ cfg.export_format = JPG <=>
              (UserValue("export_format").t = "str"
               /\ PyUpper(UserValue("export_format").s) = JPG)
        /\ \A k \in {"export_cleanup_days", "export_jpeg_quality"} :
              /\ cfg[k] \in Int
              /\ (UserValue(k).t = "missing" \/ ~PyInt(UserValue(k)).ok)
                    => cfg[k] = _DEFAULT_CONFIG[k]
        /\ cfg.always_export_copy \in BOOLEAN
        /\ \A k \in {"editor_path", "export_dir", "export_naming"} :
              cfg[k] \in Seq(STRING)
        /\ cfgFile.kind # "object" => cfg = _DEFAULT_CONFIG

\* C3's case: a lower-case format and a quality of the wrong type, loaded
C3_WrongTypesLoaded ==
    /\ Loaded
    /\ UserValue("export_format") = JStr(<<"j", "p", "g">>)
    /\ UserValue("export_jpeg_quality") = JList
    /\ cfg.export_format = JPG
    /\ cfg.export_jpeg_quality = DefaultQuality

\* C4: the loaded export_jpeg_quality, and so the quality export_image gives
\* the JPEG encoder, is within 1..100, a value outside it being replaced by
\* the default 95.
C4_QualityInRange ==
    Loaded =>
        /\ cfg.export_jpeg_quality \in 1..100
        /\ Encoding(cfg).format = "JPEG" => Encoding(cfg).quality \in 1..100

Resolved == last.op = "resolve_export_dir"

\* os.makedirs(p, exist_ok=True) succeeds on p
Creatable(w, p) == p \in w.dirs \/ (p \notin DOMAIN w.files /\ p \notin denied)

ExporterCalled == last.op \in {"copy_file", "export_image"}
SameContextPairs ==
    {<<i, j>> \in (1..Len(names)) \X (1..Len(names)) :
        i < j /\ names[i].tab = names[j].tab}

\* C5 as stated: each name generation advances the counter by one, and two
\* names generated for the same context differ, whatever the template.
C5_NamesUniqueAnyTemplate ==
    /\ ExporterCalled => counter = last.pre.counter + 1
    /\ \A q \in SameContextPairs : names[q[1]].name # names[q[2]].name

\* C5 as amended: each call of next_name advances the counter by one, also
\* when the template then fails to format; the counters of the names
\* generated increase; and with the default template
\* {datetime}_{tab}_{index}_{counter} two names generated for the same
\* context differ, also within one second and with the same index.
C5_NamesUniqueDefaultTemplate ==
    /\ ExporterCalled => counter = last.pre.counter + 1
    /\ \A i \in 1..Len(names) :
          /\ names[i].counter <= counter
          /\ \A j \in (i + 1)..Len(names) : names[i].counter < names[j].counter
    /\ cfg.export_naming = DefaultNaming =>
          \A q \in SameContextPairs : names[q[1]].name # names[q[2]].name

\* C5's case: two names from the default template for one context, one
\* index and one second
C5_SameSecondSameIndex ==
    /\ cfg.export_naming = DefaultNaming
    /\ \E q \in SameContextPairs :
          /\ names[q[1]].ts = names[q[2]].ts
          /\ names[q[1]].index = names[q[2]].index

\* C6: a directory is scanned for old files at most once, only when
\* export_cleanup_days is positive, and then before the first file is
\* written into it; no later export or copy into it scans it again.
C6_ScanOncePerDirectory ==
    \A i \in 1..Len(events) :
        /\ events[i].e = "scan" =>
              /\ cfg.export_cleanup_days > 0
              /\ \A j \in 1..Len(events) : j # i => events[j] # events[i]
        /\ (events[i].e = "write" /\ cfg.export_cleanup_days > 0) =>
              \E j \in 1..(i - 1) : events[j] = Scan(events[i].dir)

\* C6's case: one scan of a directory, then two files written into it
C6_TwoWritesOneScan ==
    /\ Len(events) = 3
    /\ events[1].e = "scan"
    /\ events[2] = Write(events[1].dir)
    /\ events[3] = Write(events[1].dir)

\* C8: copy_file, given a source file that exists when it is called, returns
\* the path of a file in the resolved directory with the content the source
\* had then (stated for the templates that format).
C8_CopyKeepsContent ==
    (/\ last.op = "copy_file"
     /\ IsFile(last.pre, strip_query(last.src))
     /\ cfg.export_naming # BadNaming) =>
        /\ ~last.raised
        /\ IsFile(World, last.ret)
        /\ files[last.ret].content = last.pre.files[strip_query(last.src)].content

\* C9: the name copy_file gives the destination ends with the source's
\* extension when it has one, and with the export extension when it has none.
C9_DestinationExtension ==
    (last.op = "copy_file" /\ ~last.raised) =>
        IF SplitExt(strip_query(last.src)) # <<>>
        THEN EndsWith(last.ret, SplitExt(strip_query(last.src)))
        ELSE EndsWith(last.ret, ext(cfg))

Clicked == last.op = "open_in_editor"

\* C1: open_in_editor returns to the host without raising, whatever fails
\* inside it; it makes at most one launch attempt, and none unless a path was
\* resolved and that path exists.
C1_ClickNeverRaises ==
    Clicked =>
        /\ ~last.raised
        /\ Len(last.launches) <= 1
        /\ last.launches # <<>> =>
              /\ last.ensure.called
              /\ ~last.ensure.raised
              /\ last.ensure.ret # None
              /\ last.launches[1].path = last.ensure.ret
              /\ Exists(World, last.ensure.ret)

\* C1's case: an exception inside the click, and the handler returned
C1_FailureInsideClick ==
    /\ Clicked
    /\ last.ensure.called
    /\ last.ensure.raised
    /\ last.ensure.copies = 1
    /\ ~last.raised
    /\ last.launches = <<>>

HoldsImage(item) == item.t = "image" \/ (item.t = "tuple" /\ item.first = "image")
NamesPath(item) == item.t \in {"str", "dict"} /\ item.v.t = "str"

\* C10: for a path string or a record naming a path, the query suffix is
\* stripped; an existing path is returned itself with nothing changed when
\* always_export_copy is false, and is the result of one copy_file call when
\* it is true; an item of any other shape without an image, or whose path
\* does not exist, gives None without raising and without creating a file.
C10_NormaliserContract ==
    (Clicked /\ last.ensure.called) =>
        LET e == last.ensure
            p == strip_query(e.item.v.s)
        IN IF NamesPath(e.item) /\ Exists(last.pre, p)
           THEN IF cfg.always_export_copy
                THEN e.copies = 1 /\ e.exports = 0
                ELSE ~e.raised /\ e.ret = p /\ World = last.pre
           ELSE HoldsImage(e.item)
                \/ (~e.raised /\ e.ret = None /\ World = last.pre)

Recognised(t) == t \in TARGET_TABS
ButtonsOf(t) == {i \in 1..Len(buttons) : buttons[i].row = RowOf(t)}

\* C7: for a recognised tab, once its gallery and its button row have both
\* been delivered, in either order, the row holds exactly one button, wired
\* to the tab's recorded gallery, and nothing is pending for the tab; a row
\* delivered before its gallery is held pending, without a button, until the
\* gallery is recorded; no button is added and no row held for another tab.
C7_OneButtonPerRow ==
    /\ \A t \in TARGET_TABS :
          /\ (GalleryOf(t) \in delivered /\ RowOf(t) \in delivered) =>
                /\ Cardinality(ButtonsOf(t)) = 1
                /\ \A i \in ButtonsOf(t) :
                      /\ buttons[i].tab = t
                      /\ buttons[i].gallery = GalleryOf(t)
                      /\ buttons[i].gallery = galleries[t]
                /\ t \notin DOMAIN pending_rows
          /\ (RowOf(t) \in delivered /\ GalleryOf(t) \notin delivered) =>
                /\ t \in DOMAIN pending_rows
                /\ pending_rows[t] = RowOf(t)
                /\ ButtonsOf(t) = {}
          /\ RowOf(t) \notin delivered =>
                (ButtonsOf(t) = {} /\ t \notin DOMAIN pending_rows)
    /\ \A i \in 1..Len(buttons) : Recognised(buttons[i].tab)
    /\ \A t \in DOMAIN pending_rows : Recognised(t)

\* C7's case: a row that waited for its gallery has its button, while the
\* components of an unrecognised tab have been delivered too
C7_DeferredButtonAdded ==
    /\ \E i \in 1..Len(buttons) :
          buttons[i].via = "gallery" /\ buttons[i].tab \notin DOMAIN pending_rows
    /\ \E i \in 1..Len(buttons) : buttons[i].via = "row"
    /\ {GalleryOf(Foo), RowOf(Foo)} \subseteq delivered

=============================================================================
